---- MODULE Spec2Model ----
(***************************************************************************)
(* Model of app.py, the Groq forwarding proxy: ProxyHandler (do_GET,       *)
(* do_OPTIONS, do_POST) served one request at a time by HTTPServer.        *)
(*                                                                         *)
(* Bytes and characters are one-character strings; a body is a sequence of *)
(* bytes, a text a sequence of characters.  The two bytes XC3 XA9 are the  *)
(* UTF-8 encoding of the character EAcute; XFF is a byte that occurs in no *)
(* UTF-8 encoding.  JSON values are records [t, s, kids]: t is the Python  *)
(* type the json module produces, s the characters of a scalar, kids the   *)
(* children of a list or dict.                                             *)
(***************************************************************************)
EXTENDS Integers, Sequences, FiniteSets, TLC

\* ------------------------------------------------------------------ bounds
\* Every inbound body of at most MaxLen bytes over BodyAlphabet is tried.
MaxLen == 2

\* ------------------------------------------------------- bytes and characters
XFF == "xFF"
XC3 == "xC3"
XA9 == "xA9"
EAcute == "e-acute"
DQ == "\""
BS == "\\"

Digits == <<"0", "1", "2", "3", "4", "5", "6", "7", "8", "9">>

Whitespace == {" "}

RECURSIVE Flatten(_)
\* The concatenation of a sequence of sequences.
Flatten(ss) ==
  IF ss = <<>> THEN <<>>
  ELSE IF Len(ss) = 1 THEN ss[1]
  ELSE LET h == Len(ss) \div 2
       IN  Flatten(SubSeq(ss, 1, h)) \o Flatten(SubSeq(ss, h + 1, Len(ss)))

\* bytes.decode("utf-8"): [ok, text]; ok is FALSE where Python raises
\* UnicodeDecodeError.
\* The lead byte XC3 must be followed by the continuation byte XA9, and XA9
\* must follow XC3; every other byte but XFF is a character of its own.
Utf8Decode(b) ==
  IF \A k \in 1..Len(b) :
       /\ b[k] # XFF
       /\ b[k] = XC3 => (k < Len(b) /\ b[k + 1] = XA9)
       /\ b[k] = XA9 => (k > 1 /\ b[k - 1] = XC3)
    THEN [ok |-> TRUE,
          text |-> SelectSeq([k \in 1..Len(b) |->
                                IF b[k] = XC3 THEN EAcute ELSE b[k]],
                             LAMBDA c : c # XA9)]
    ELSE [ok |-> FALSE, text |-> <<>>]

\* str.encode("utf-8")
Utf8Encode(text) ==
  Flatten([i \in 1..Len(text) |->
             IF text[i] = EAcute THEN <<XC3, XA9>> ELSE <<text[i]>>])

\* ---------------------------------------------------------------- JSON values
NullV == [t |-> "NoneType", s |-> <<>>, kids |-> <<>>]
BoolV(chars) == [t |-> "bool", s |-> chars, kids |-> <<>>]
IntV(digits) == [t |-> "int", s |-> digits, kids |-> <<>>]
StrV(chars) == [t |-> "str", s |-> chars, kids |-> <<>>]
ListV(items) == [t |-> "list", s |-> <<>>, kids |-> items]
ItemV(key, v) == [t |-> "item", s |-> key, kids |-> <<v>>]
DictV(items) == [t |-> "dict", s |-> <<>>, kids |-> items]

\* d[key] = v on a Python dict: a repeated key keeps its place and takes the
\* new value.
DictSet(items, key, v) ==
  IF \E k \in 1..Len(items) : items[k].s = key
    THEN [k \in 1..Len(items) |->
            IF items[k].s = key THEN ItemV(key, v) ELSE items[k]]
    ELSE Append(items, ItemV(key, v))

\* ---------------------------------------------------------------- json.loads
Fail == [ok |-> FALSE, v |-> NullV, i |-> 0]
Ok(v, i) == [ok |-> TRUE, v |-> v, i |-> i]

Match(s, i, lit) ==
  /\ i + Len(lit) - 1 <= Len(s)
  /\ \A k \in 1..Len(lit) : s[i + k - 1] = lit[k]

RECURSIVE SkipWs(_, _)
SkipWs(s, i) ==
  IF i <= Len(s) /\ s[i] \in Whitespace THEN SkipWs(s, i + 1) ELSE i

EscapedEAcute == <<"\\", "u", "0", "0", "e", "9">>

RECURSIVE Unescape(_)
\* The characters of a string literal's content: [ok, text]; the one escape
\* that occurs is é, and a backslash that starts no escape is an error.
Unescape(raw) ==
  LET bs == {k \in 1..Len(raw) : raw[k] = BS}
  IN  IF bs = {} THEN [ok |-> TRUE, text |-> raw]
      ELSE LET k == CHOOSE x \in bs : \A y \in bs : x <= y
           IN  IF ~Match(raw, k, EscapedEAcute) THEN [ok |-> FALSE, text |-> <<>>]
               ELSE LET r == Unescape(SubSeq(raw, k + Len(EscapedEAcute), Len(raw)))
                    IN  [ok |-> r.ok,
                         text |-> SubSeq(raw, 1, k - 1) \o <<EAcute>> \o r.text]

\* scanstring, from the character after the opening quote: the literal ends
\* at the next quote.
ScanString(s, i) ==
  LET qs == {k \in i..Len(s) : s[k] = DQ}
  IN  IF qs = {} THEN Fail
      ELSE LET q == CHOOSE x \in qs : \A y \in qs : x <= y
               u == Unescape(SubSeq(s, i, q - 1))
           IN  IF u.ok THEN Ok(StrV(u.text), q + 1) ELSE Fail

IsDigit(c) == \E k \in 1..Len(Digits) : Digits[k] = c

RECURSIVE DigitRun(_, _)
\* The first index at or after i that holds no digit.
DigitRun(s, i) ==
  IF i <= Len(s) /\ IsDigit(s[i]) THEN DigitRun(s, i + 1) ELSE i

\* NUMBER_RE, integers: 0 or a run of digits that does not start with 0.
ScanNumber(s, i) ==
  IF s[i] = "0" THEN Ok(IntV(<<"0">>), i + 1)
  ELSE LET j == DigitRun(s, i) IN Ok(IntV(SubSeq(s, i, j - 1)), j)

RECURSIVE ScanOnce(_, _)
RECURSIVE ArrayItems(_, _, _)
RECURSIVE ObjectItems(_, _, _)

\* JSONArray, after the opening bracket.
ParseArray(s, i) ==
  LET j == SkipWs(s, i)
  IN  IF j <= Len(s) /\ s[j] = "]" THEN Ok(ListV(<<>>), j + 1)
      ELSE ArrayItems(s, j, <<>>)

ArrayItems(s, i, acc) ==
  LET r == ScanOnce(s, i)
  IN  IF ~r.ok THEN Fail
      ELSE LET j == SkipWs(s, r.i)
               acc2 == Append(acc, r.v)
           IN  IF j > Len(s) THEN Fail
               ELSE IF s[j] = "]" THEN Ok(ListV(acc2), j + 1)
               ELSE IF s[j] # "," THEN Fail
               ELSE ArrayItems(s, SkipWs(s, j + 1), acc2)

\* JSONObject, after the opening brace.
ParseObject(s, i) ==
  LET j == SkipWs(s, i)
  IN  IF j <= Len(s) /\ s[j] = "}" THEN Ok(DictV(<<>>), j + 1)
      ELSE ObjectItems(s, j, <<>>)

\* One "key": value pair starting at i, then the rest of the object.
ObjectItems(s, i, acc) ==
  IF i > Len(s) \/ s[i] # DQ THEN Fail
  ELSE
    LET k == ScanString(s, i + 1)
    IN  IF ~k.ok THEN Fail
        ELSE
          LET c == SkipWs(s, k.i)
          IN  IF c > Len(s) \/ s[c] # ":" THEN Fail
              ELSE
                LET r == ScanOnce(s, SkipWs(s, c + 1))
                IN  IF ~r.ok THEN Fail
                    ELSE
                      LET j == SkipWs(s, r.i)
                          acc2 == DictSet(acc, k.v.s, r.v)
                      IN  IF j > Len(s) THEN Fail
                          ELSE IF s[j] = "}" THEN Ok(DictV(acc2), j + 1)
                          ELSE IF s[j] # "," THEN Fail
                          ELSE ObjectItems(s, SkipWs(s, j + 1), acc2)

\* scan_once: the value that starts exactly at i.
ScanOnce(s, i) ==
  IF i > Len(s) THEN Fail
  ELSE IF s[i] = DQ THEN ScanString(s, i + 1)
  ELSE IF s[i] = "{" THEN ParseObject(s, i + 1)
  ELSE IF s[i] = "[" THEN ParseArray(s, i + 1)
  ELSE IF Match(s, i, <<"n", "u", "l", "l">>) THEN Ok(NullV, i + 4)
  ELSE IF Match(s, i, <<"t", "r", "u", "e">>)
    THEN Ok(BoolV(<<"t", "r", "u", "e">>), i + 4)
  ELSE IF Match(s, i, <<"f", "a", "l", "s", "e">>)
    THEN Ok(BoolV(<<"f", "a", "l", "s", "e">>), i + 5)
  ELSE IF IsDigit(s[i]) THEN ScanNumber(s, i)
  ELSE Fail

\* json.loads(text): [ok, v]; ok is FALSE where it raises JSONDecodeError
\* (no value, or extra data after the value).
Loads(s) ==
  LET r == ScanOnce(s, SkipWs(s, 1))
  IN  IF r.ok /\ SkipWs(s, r.i) = Len(s) + 1 THEN r ELSE Fail

\* ---------------------------------------------------------------- json.dumps
\* A string's characters with ensure_ascii: non-ASCII becomes a \u escape.
EscapeChars(chars) ==
  Flatten([i \in 1..Len(chars) |->
             IF chars[i] = EAcute THEN EscapedEAcute ELSE <<chars[i]>>])

RECURSIVE JoinItems(_)
\* Texts joined by ", ".
JoinItems(texts) ==
  IF texts = <<>> THEN <<>>
  ELSE IF Len(texts) = 1 THEN texts[1]
  ELSE texts[1] \o <<",", " ">> \o JoinItems(Tail(texts))

RECURSIVE Dumps(_)
\* json.dumps(v) with the default separators.
Dumps(v) ==
  IF v.t = "NoneType" THEN <<"n", "u", "l", "l">>
  ELSE IF v.t \in {"bool", "int"} THEN v.s
  ELSE IF v.t = "str" THEN <<DQ>> \o EscapeChars(v.s) \o <<DQ>>
  ELSE IF v.t = "list"
    THEN <<"[">> \o JoinItems([k \in 1..Len(v.kids) |-> Dumps(v.kids[k])])
                 \o <<"]">>
  ELSE <<"{">> \o JoinItems([k \in 1..Len(v.kids) |->
                   <<DQ>> \o EscapeChars(v.kids[k].s) \o <<DQ, ":", " ">>
                          \o Dumps(v.kids[k].kids[1])])
               \o <<"}">>

\* ------------------------------------------------------------ str() and int()
RECURSIVE ToDecimal(_)
\* str(n) for n >= 0
ToDecimal(n) ==
  IF n < 10 THEN <<Digits[n + 1]>>
  ELSE ToDecimal(n \div 10) \o <<Digits[(n % 10) + 1]>>

DigitValue(c) == CHOOSE k \in 0..9 : Digits[k + 1] = c

RECURSIVE DecimalValue(_)
DecimalValue(ds) ==
  IF ds = <<>> THEN 0
  ELSE 10 * DecimalValue(SubSeq(ds, 1, Len(ds) - 1)) + DigitValue(ds[Len(ds)])

\* int(text): [ok, n]; ok is FALSE where Python raises ValueError.
PyInt(text) ==
  LET neg == text # <<>> /\ Head(text) = "-"
      ds == IF neg THEN Tail(text) ELSE text
  IN  IF ds # <<>> /\ \A k \in 1..Len(ds) : IsDigit(ds[k])
        THEN [ok |-> TRUE, n |-> IF neg THEN 0 - DecimalValue(ds)
                                        ELSE DecimalValue(ds)]
        ELSE [ok |-> FALSE, n |-> 0]

\* ------------------------------------------------------------ strings of app.py
ApplicationJson ==
  <<"a", "p", "p", "l", "i", "c", "a", "t", "i", "o", "n", "/", "j", "s", "o", "n">>
TextPlain == <<"t", "e", "x", "t", "/", "p", "l", "a", "i", "n">>
OctetStream ==
  <<"a", "p", "p", "l", "i", "c", "a", "t", "i", "o", "n", "/", "o", "c", "t", "e", "t",
    "-", "s", "t", "r", "e", "a", "m">>
RootPath == <<"/">>
HealthPath == <<"/", "h", "e", "a", "l", "t", "h">>
ChatPath ==
  <<"/", "v", "1", "/", "c", "h", "a", "t", "/", "c", "o", "m", "p", "l", "e", "t", "i",
    "o", "n", "s">>
OkBody == <<"O", "K">>
BearerPrefix == <<"B", "e", "a", "r", "e", "r", " ">>
GROQ_URL == "https://api.groq.ai/v1/chat/completions"

NotFoundPayload ==
  DictV(<<ItemV(<<"e", "r", "r", "o", "r">>,
                StrV(<<"N", "o", "t", " ", "F", "o", "u", "n", "d">>))>>)

MisconfiguredPayload ==
  DictV(<<ItemV(<<"e", "r", "r", "o", "r">>,
                StrV(<<"S", "e", "r", "v", "e", "r", " ", "m", "i", "s", "c", "o", "n",
                       "f", "i", "g", "u", "r", "e", "d">>)),
          ItemV(<<"d", "e", "t", "a", "i", "l">>,
                StrV(<<"M", "i", "s", "s", "i", "n", "g", " ", "G", "R", "O", "Q", "_",
                       "A", "P", "I", "_", "K", "E", "Y", " ", "e", "n", "v", "i", "r",
                       "o", "n", "m", "e", "n", "t", " ", "v", "a", "r", "i", "a", "b",
                       "l", "e">>))>>)

UpstreamFailedPayload(detail) ==
  DictV(<<ItemV(<<"e", "r", "r", "o", "r">>,
                StrV(<<"U", "p", "s", "t", "r", "e", "a", "m", " ", "r", "e", "q", "u",
                       "e", "s", "t", " ", "f", "a", "i", "l", "e", "d">>)),
          ItemV(<<"d", "e", "t", "a", "i", "l">>, StrV(detail))>>)

InfoPayload ==
  DictV(<<ItemV(<<"m", "e", "s", "s", "a", "g", "e">>,
                StrV(<<"P", "O", "S", "T", " ", "t", "h", "i", "s", " ", "e", "n", "d",
                       "p", "o", "i", "n", "t", " ", "w", "i", "t", "h", " ", "a", " ",
                       "J", "S", "O", "N", " ", "b", "o", "d", "y", " ", "t", "o", " ",
                       "p", "r", "o", "x", "y", " ", "t", "o", " ", "G", "r", "o", "q",
                       ".">>))>>)

\* ------------------------------------------------------------ headers
\* A header list is a sequence of <<name, value>>; the value is a text.
HasHeader(headers, name) == \E k \in 1..Len(headers) : headers[k][1] = name

\* headers.get(name, default)
HeaderGet(headers, name, default) ==
  IF HasHeader(headers, name)
    THEN headers[CHOOSE k \in 1..Len(headers) :
                   /\ headers[k][1] = name
                   /\ \A j \in 1..(k - 1) : headers[j][1] # name][2]
    ELSE default

\* str.lower()
Upper == <<"A", "B", "C", "D", "E", "F", "G", "H", "I", "J", "K", "L", "M", "N", "O",
           "P", "Q", "R", "S", "T", "U", "V", "W", "X", "Y", "Z">>
Lower == <<"a", "b", "c", "d", "e", "f", "g", "h", "i", "j", "k", "l", "m", "n", "o",
           "p", "q", "r", "s", "t", "u", "v", "w", "x", "y", "z">>
LowerChar(c) ==
  IF \E k \in 1..Len(Upper) : Upper[k] = c
    THEN Lower[CHOOSE k \in 1..Len(Upper) : Upper[k] = c]
    ELSE c
ToLower(text) == [k \in 1..Len(text) |-> LowerChar(text[k])]

\* needle in text
Contains(text, needle) ==
  \E i \in 0..(Len(text) - Len(needle)) :
    \A k \in 1..Len(needle) : text[i + k] = needle[k]

\* urlparse(target).path: the target up to its query or fragment.
UrlPath(target) ==
  LET cut == {k \in 1..Len(target) : target[k] \in {"?", "#"}}
  IN  IF cut = {} THEN target
      ELSE SubSeq(target, 1, (CHOOSE k \in cut : \A j \in cut : k <= j) - 1)

\* ------------------------------------------------------------ ProxyHandler
Response(status, headers, body) ==
  [status |-> status, headers |-> headers, body |-> body]

\* What one call of a handler leaves behind: the responses written to wfile,
\* the upstream calls made, and the exception that escaped ("" for none).
Result(wfile, calls, raised) ==
  [wfile |-> wfile, calls |-> calls, raised |-> raised]

\* Mutation of set_common_headers: Access-Control-Allow-Headers is left out.
set_common_headers_NoAllowHeaders ==
  << <<"Access-Control-Allow-Origin", <<"*">> >>,
     <<"Access-Control-Allow-Methods",
       <<"G", "E", "T", ",", " ", "P", "O", "S", "T", ",", " ", "O", "P", "T", "I", "O",
         "N", "S">> >> >>

set_common_headers ==
  << <<"Access-Control-Allow-Origin", <<"*">> >>,
     <<"Access-Control-Allow-Methods",
       <<"G", "E", "T", ",", " ", "P", "O", "S", "T", ",", " ", "O", "P", "T", "I", "O",
         "N", "S">> >>,
     <<"Access-Control-Allow-Headers",
       <<"C", "o", "n", "t", "e", "n", "t", "-", "T", "y", "p", "e", ",", " ", "A", "u",
         "t", "h", "o", "r", "i", "z", "a", "t", "i", "o", "n">> >> >>

send_json(status, payload) ==
  LET body == Utf8Encode(Dumps(payload))
  IN  Response(status,
               << <<"Content-Type", ApplicationJson>> >>
                 \o set_common_headers
                 \o << <<"Content-Length", ToDecimal(Len(body))>> >>,
               body)

\* Mutation of do_GET: the path is compared after its trailing slash is
\* dropped, so /health/ is answered as the health check.
do_GET_TrailingSlash(req) ==
  LET path == UrlPath(req.path)
  IN  IF path = RootPath \/ path = HealthPath \/ path = HealthPath \o <<"/">>
        THEN Result(<<Response(200,
                               << <<"Content-Type", TextPlain>> >>
                                 \o set_common_headers,
                               OkBody)>>, <<>>, "")
      ELSE IF path = ChatPath
        THEN Result(<<send_json(200, InfoPayload)>>, <<>>, "")
      ELSE Result(<<send_json(404, NotFoundPayload)>>, <<>>, "")

do_GET(req) ==
  LET path == UrlPath(req.path)
  IN  IF path = RootPath \/ path = HealthPath
        THEN Result(<<Response(200,
                               << <<"Content-Type", TextPlain>> >>
                                 \o set_common_headers,
                               OkBody)>>, <<>>, "")
      ELSE IF path = ChatPath
        THEN Result(<<send_json(200, InfoPayload)>>, <<>>, "")
      ELSE Result(<<send_json(404, NotFoundPayload)>>, <<>>, "")

do_OPTIONS(req) ==
  Result(<<Response(204, set_common_headers, <<>>)>>, <<>>, "")

\* Mutation of KeyMissing: "GROQ_API_KEY is None", which lets "" through.
KeyMissing_NoneOnly(key) == key = <<>>

\* GROQ_API_KEY is <<>> for None (variable not in the environment) and
\* <<text>> for a value; "not GROQ_API_KEY" holds of None and of "".
KeyMissing(key) == key = <<>> \/ key[1] = <<>>

\* int(self.headers.get("Content-Length", 0)): [ok, n]
ContentLength(headers) ==
  IF HasHeader(headers, "Content-Length")
    THEN PyInt(HeaderGet(headers, "Content-Length", <<>>))
    ELSE [ok |-> TRUE, n |-> 0]

\* self.rfile.read(n) if n > 0 else b"" : the first n bytes on the wire.
ReadBody(rfile, n) ==
  IF n > 0 THEN SubSeq(rfile, 1, IF n < Len(rfile) THEN n ELSE Len(rfile))
  ELSE <<>>

\* payload: json.loads(body_text) if body_text else {}, and None (NullV) where
\* json.loads raises.
ParsePayload(body_text) ==
  IF body_text = <<>> THEN DictV(<<>>)
  ELSE LET r == Loads(body_text) IN IF r.ok THEN r.v ELSE NullV

OutboundHeaders(key) ==
  << <<"Authorization", BearerPrefix \o key[1]>>,
     <<"Content-Type", ApplicationJson>> >>

\* Mutation of UpstreamCall: the text, not the parsed value, is passed as
\* json=, so the upstream receives the body wrapped in a JSON string.
UpstreamCall_JsonOfText(key, payload, body_text) ==
  [url |-> GROQ_URL,
   headers |-> OutboundHeaders(key),
   mode |-> IF payload # NullV THEN "json" ELSE "data",
   body |-> IF payload # NullV THEN Utf8Encode(Dumps(StrV(body_text)))
                               ELSE Utf8Encode(body_text),
   timeout |-> 30]

\* The one requests.post call: json=payload if payload is not None, else
\* data=body_text.encode("utf-8").
UpstreamCall(key, payload, body_text) ==
  [url |-> GROQ_URL,
   headers |-> OutboundHeaders(key),
   mode |-> IF payload # NullV THEN "json" ELSE "data",
   body |-> IF payload # NullV THEN Utf8Encode(Dumps(payload))
                               ELSE Utf8Encode(body_text),
   timeout |-> 30]

\* upstream.json(): [ok, v]; ok is FALSE where it raises ValueError.
UpstreamJson(content) ==
  LET d == Utf8Decode(content)
  IN  IF d.ok THEN Loads(d.text) ELSE Fail

\* Mutation of InvalidJsonResponse: the failure to parse is reported as 502.
InvalidJsonResponse_As502(status, content) ==
  Response(502,
           << <<"Content-Type", TextPlain>> >> \o set_common_headers,
           content)

\* The response for an upstream body that claims to be JSON and is not.
InvalidJsonResponse(status, content) ==
  Response(status,
           << <<"Content-Type", TextPlain>> >> \o set_common_headers,
           content)

\* The response written for an upstream response (status_code, headers,
\* content).
Mirror(up) ==
  LET status == up.status_code
      content_type == HeaderGet(up.headers, "Content-Type", ApplicationJson)
  IN  IF content_type # <<>> /\ Contains(ToLower(content_type), ApplicationJson)
        THEN LET resp_json == UpstreamJson(up.content)
             IN  IF ~resp_json.ok
                   THEN InvalidJsonResponse(status, up.content)
                   ELSE send_json(status, resp_json.v)
        ELSE Response(status,
                      << <<"Content-Type",
                           IF content_type # <<>> THEN content_type
                                                  ELSE OctetStream>> >>
                        \o set_common_headers
                        \o << <<"Content-Length", ToDecimal(Len(up.content))>> >>,
                      up.content)

\* Mutation of UpstreamFailure: the call is tried a second time before the
\* 502 is sent.
UpstreamFailure_Retry(call, detail) ==
  Result(<<send_json(502, UpstreamFailedPayload(detail))>>, <<call, call>>, "")

\* except requests.RequestException as e: one 502, after the one call.
UpstreamFailure(call, detail) ==
  Result(<<send_json(502, UpstreamFailedPayload(detail))>>, <<call>>, "")

\* up is what requests.post does: it returns a response or raises a
\* RequestException whose str() is up.detail.
do_POST(req, key, up) ==
  IF UrlPath(req.path) # ChatPath
    THEN Result(<<send_json(404, NotFoundPayload)>>, <<>>, "")
  ELSE IF KeyMissing(key)
    THEN Result(<<send_json(500, MisconfiguredPayload)>>, <<>>, "")
  ELSE
    LET content_length == ContentLength(req.headers)
    IN  IF ~content_length.ok THEN Result(<<>>, <<>>, "ValueError")
        ELSE
          LET body_bytes == ReadBody(req.rfile, content_length.n)
              decoded == Utf8Decode(body_bytes)
          IN  IF ~decoded.ok THEN Result(<<>>, <<>>, "UnicodeDecodeError")
              ELSE
                LET body_text == decoded.text
                    payload == ParsePayload(body_text)
                    call == UpstreamCall(key, payload, body_text)
                IN  IF up.raises
                      THEN UpstreamFailure(call, up.detail)
                      ELSE Result(<<Mirror(up)>>, <<call>>, "")

\* BaseHTTPRequestHandler.handle_one_request for a command that has no do_
\* method: send_error(501).  The error page is shortened to its message, and
\* HEAD gets no body.
ErrorContentType ==
  <<"t", "e", "x", "t", "/", "h", "t", "m", "l", ";", "c", "h", "a", "r", "s", "e", "t",
    "=", "u", "t", "f", "-", "8">>
UnsupportedMethodPage ==
  <<"U", "n", "s", "u", "p", "p", "o", "r", "t", "e", "d", " ", "m", "e", "t", "h", "o",
    "d">>
send_error_501(req) ==
  Result(<<Response(501,
                    << <<"Content-Type", ErrorContentType>>,
                       <<"Connection", <<"c", "l", "o", "s", "e">> >>,
                       <<"Content-Length", ToDecimal(Len(UnsupportedMethodPage))>> >>,
                    IF req.command = "HEAD" THEN <<>> ELSE UnsupportedMethodPage)>>,
         <<>>, "")

\* ------------------------------------------------------------ inputs
RECURSIVE SeqsUpTo(_, _)
\* All sequences over S of length at most n.
SeqsUpTo(S, n) ==
  IF n = 0 THEN {<<>>}
  ELSE LET shorter == SeqsUpTo(S, n - 1)
       IN  shorter \cup {Append(q, x) : q \in shorter, x \in S}

BodyAlphabet == {"7", "[", "]", "{", "}", DQ, " ", XFF}

SampleBodies ==
  { <<"n", "u", "l", "l">>,
    <<" ", "n", "u", "l", "l", " ">>,
    <<"t", "r", "u", "e">>,
    <<"f", "a", "l", "s", "e">>,
    <<"0">>,
    <<"[", "7", " ", ",", " ", "f", "a", "l", "s", "e", "]">>,
    <<"{", DQ, "a", DQ, ":", "7", "}">>,
    <<"{", DQ, "a", DQ, ":", "7", ",", DQ, "a", DQ, ":", "n", "u", "l", "l", "}">>,
    <<"{", DQ, "a", DQ, ":", "{", DQ, "b", DQ, ":", "[", "7", ",", DQ, XC3, XA9, DQ,
      ",", "t", "r", "u", "e", "]", "}", "}">>,
    <<DQ, XC3, XA9, DQ>>,
    <<DQ, BS, "u", "0", "0", "e", "9", DQ>>,
    <<XC3, XA9>>,
    <<DQ, XC3, DQ>>,
    <<"n", "o", "t", "-", "j", "s", "o", "n">>,
    <<"{", DQ, "a", DQ, ":", "7", ",", "}">>,
    <<"[", "7", "]">>,
    <<"[", " ", "]">>,
    <<DQ, "a", DQ>>,
    <<"[", "7", ",", "7", "]">>,
    <<"7", " ", "7">>,
    <<"[", "7", ",", "]">> }

Bodies == SeqsUpTo(BodyAlphabet, MaxLen) \cup SampleBodies

Commands == {"GET", "POST", "OPTIONS", "PUT", "DELETE", "PATCH", "HEAD"}

Targets ==
  { RootPath, HealthPath, ChatPath, ChatPath \o <<"?", "a">>,
    HealthPath \o <<"/">>, <<"/", "a">> }

\* A request that declares its body's length, for every body ...
DeclaredRequests ==
  { [command |-> c, path |-> t,
     headers |-> << <<"Content-Length", ToDecimal(Len(b))>> >>, rfile |-> b] :
    c \in {"POST"}, t \in {ChatPath}, b \in Bodies }

\* ... and requests with no, a zero, a negative, a non-numeric or a short
\* Content-Length, with and without bytes on the wire.
OddHeaders ==
  { <<>>,
    << <<"Content-Length", <<"0">> >> >>,
    << <<"Content-Length", <<"-", "1">> >> >>,
    << <<"Content-Length", <<"a", "b", "c">> >> >>,
    << <<"Content-Length", <<"1">> >> >> }

OddRequests ==
  { [command |-> c, path |-> t, headers |-> h, rfile |-> b] :
    c \in Commands, t \in Targets, h \in OddHeaders,
    b \in {<<>>, <<"{", "}">>, <<XFF, "7">>} }

Requests == DeclaredRequests \cup OddRequests

UpstreamContents ==
  { <<>>,
    <<"n", "o", "t", "-", "j", "s", "o", "n">>,
    <<"<", "h", "1", ">", "d", "o", "w", "n", "<", "/", "h", "1", ">">>,
    <<"{", DQ, "c", "h", "o", "i", "c", "e", "s", DQ, ":", "[", "{", DQ, "t", "e", "x",
      "t", DQ, ":", DQ, "h", "i", DQ, "}", "]", "}">>,
    <<DQ, XC3, XA9, DQ>> }

UpstreamHeaders ==
  { <<>>,
    << <<"Content-Type", <<>> >> >>,
    << <<"Content-Type", ApplicationJson>> >>,
    << <<"Content-Type",
         <<"A", "p", "p", "l", "i", "c", "a", "t", "i", "o", "n", "/", "J", "S", "O",
           "N", ";", " ", "c", "h", "a", "r", "s", "e", "t", "=", "u", "t", "f", "-",
           "8">> >> >>,
    << <<"Content-Type", <<"t", "e", "x", "t", "/", "h", "t", "m", "l">> >> >> }

UpstreamResponses ==
  { [raises |-> FALSE, detail |-> <<>>, status_code |-> st, headers |-> h,
     content |-> c] :
    st \in {200, 503}, h \in UpstreamHeaders, c \in UpstreamContents }

UpstreamFailures ==
  { [raises |-> TRUE, detail |-> d, status_code |-> 0, headers |-> <<>>,
     content |-> <<>>] :
    d \in { <<"t", "i", "m", "e", "d", " ", "o", "u", "t">>, <<>> } }

\* No upstream exchange (yet).
NoUpstream ==
  [raises |-> FALSE, detail |-> <<>>, status_code |-> 0, headers |-> <<>>,
   content |-> <<>>]

NoRequest == [command |-> "", path |-> <<>>, headers |-> <<>>, rfile |-> <<>>]

Keys == { <<>>, << <<>> >>, << <<"g", "s", "k">> >> }

\* ------------------------------------------------------------ state machine
VARIABLES
  GROQ_API_KEY,  \* the credential read at import: <<>> or <<text>>
  pc,            \* "idle", "handling" (request parsed, handler not run), "done"
  request,       \* the request being handled
  upstream,      \* what requests.post did for this request
  calls,         \* the upstream calls made for this request
  wfile,         \* the responses written for this request
  raised         \* the exception that escaped the handler, "" for none

vars == <<GROQ_API_KEY, pc, request, upstream, calls, wfile, raised>>

Init ==
  /\ GROQ_API_KEY \in Keys
  /\ pc = "idle"
  /\ request = NoRequest
  /\ upstream = NoUpstream
  /\ calls = <<>>
  /\ wfile = <<>>
  /\ raised = ""

\* handle_one_request has read the request line and the headers.
Accept ==
  /\ pc = "idle"
  /\ request' \in Requests
  /\ pc' = "handling"
  /\ UNCHANGED <<GROQ_API_KEY, upstream, calls, wfile, raised>>

Finish(result, up) ==
  /\ pc' = "done"
  /\ upstream' = up
  /\ calls' = result.calls
  /\ wfile' = result.wfile
  /\ raised' = result.raised
  /\ UNCHANGED <<GROQ_API_KEY, request>>

DoGET ==
  /\ pc = "handling"
  /\ request.command = "GET"
  /\ Finish(do_GET(request), NoUpstream)

DoOPTIONS ==
  /\ pc = "handling"
  /\ request.command = "OPTIONS"
  /\ Finish(do_OPTIONS(request), NoUpstream)

DoPOST ==
  /\ pc = "handling"
  /\ request.command = "POST"
  /\ \E up \in UpstreamResponses \cup UpstreamFailures :
       LET result == do_POST(request, GROQ_API_KEY, up)
       IN  Finish(result, IF result.calls = <<>> THEN NoUpstream ELSE up)

Unsupported ==
  /\ pc = "handling"
  /\ request.command \notin {"GET", "POST", "OPTIONS"}
  /\ Finish(send_error_501(request), NoUpstream)

\* The connection is closed and the server waits for the next request.
Close ==
  /\ pc = "done"
  /\ pc' = "idle"
  /\ request' = NoRequest
  /\ upstream' = NoUpstream
  /\ calls' = <<>>
  /\ wfile' = <<>>
  /\ raised' = ""
  /\ UNCHANGED GROQ_API_KEY

Next == Accept \/ DoGET \/ DoOPTIONS \/ DoPOST \/ Unsupported \/ Close

Spec == Init /\ [][Next]_vars

\* ------------------------------------------------------------ properties
Done == pc = "done"

\* A POST whose target, up to its query, is /v1/chat/completions.
ForwardingPost ==
  /\ request.command = "POST"
  /\ UrlPath(request.path) = ChatPath

CredentialSet == GROQ_API_KEY # <<>> /\ GROQ_API_KEY[1] # <<>>

\* The request's framing is readable: no Content-Length, or an integer.
WellFramed == ContentLength(request.headers).ok

\* The body the request carries: the bytes its Content-Length declares.
InboundBody == ReadBody(request.rfile, ContentLength(request.headers).n)

\* The JSON value a byte string holds: [ok, v].
JsonOf(bytes) ==
  LET d == Utf8Decode(bytes)
  IN  IF d.ok THEN [ok |-> Loads(d.text).ok, v |-> Loads(d.text).v]
      ELSE [ok |-> FALSE, v |-> NullV]

\* Exactly one response was written, with this status and this JSON body.
AnsweredJson(status, payload) ==
  /\ Len(wfile) = 1
  /\ wfile[1].status = status
  /\ JsonOf(wfile[1].body).ok
  /\ JsonOf(wfile[1].body).v = payload

\* requests.post returned a response for this request.
UpstreamResponded == calls # <<>> /\ ~upstream.raises

\* The (method, path) pairs the routing table names.
Routed ==
  \/ request.command = "GET"
       /\ UrlPath(request.path) \in {RootPath, HealthPath, ChatPath}
  \/ request.command = "OPTIONS"
  \/ ForwardingPost

\* The three CORS headers, as the contract spells them.
HasCors(r) ==
  /\ HasHeader(r.headers, "Access-Control-Allow-Origin")
  /\ HeaderGet(r.headers, "Access-Control-Allow-Origin", <<>>) = <<"*">>
  /\ HasHeader(r.headers, "Access-Control-Allow-Methods")
  /\ HeaderGet(r.headers, "Access-Control-Allow-Methods", <<>>)
       = <<"G", "E", "T", ",", " ", "P", "O", "S", "T", ",", " ", "O", "P", "T", "I",
           "O", "N", "S">>
  /\ HasHeader(r.headers, "Access-Control-Allow-Headers")
  /\ HeaderGet(r.headers, "Access-Control-Allow-Headers", <<>>)
       = <<"C", "o", "n", "t", "e", "n", "t", "-", "T", "y", "p", "e", ",", " ", "A",
           "u", "t", "h", "o", "r", "i", "z", "a", "t", "i", "o", "n">>

\* C1: with the credential unset (None or ""), every POST to
\* /v1/chat/completions is answered 500 with the "Server misconfigured" JSON
\* body, and no upstream call is made.
C1_MissingCredentialIs500 ==
  (Done /\ ForwardingPost /\ GROQ_API_KEY \in {<<>>, << <<>> >>})
    => /\ AnsweredJson(500, MisconfiguredPayload)
       /\ calls = <<>>

C1_Witness ==
  /\ Done /\ ForwardingPost
  /\ GROQ_API_KEY = << <<>> >>
  /\ request.rfile # <<>>
  /\ Len(wfile) = 1 /\ wfile[1].status = 500

C4_Original ==
  (Done /\ ForwardingPost /\ CredentialSet /\ WellFramed
     /\ ~JsonOf(InboundBody).ok)
    => /\ Len(calls) = 1
       /\ calls[1].body = InboundBody

C6_TransportFailureIs502 ==
  (Done /\ calls # <<>> /\ upstream.raises)
    => /\ AnsweredJson(502, UpstreamFailedPayload(upstream.detail))
       /\ Len(calls) = 1

C6_Witness ==
  /\ Done /\ upstream.raises /\ upstream.detail # <<>>
  /\ Len(calls) = 1
  /\ Len(wfile) = 1 /\ wfile[1].status = 502

\* C7 as stated: an upstream response whose content-type does not contain
\* application/json is mirrored with its status, its bytes and its content-type;
\* one with no content-type header at all is mirrored as
\* application/octet-stream with its bytes.
C7_Original ==
  (Done /\ UpstreamResponded
     /\ ~(/\ HasHeader(upstream.headers, "Content-Type")
          /\ Contains(ToLower(HeaderGet(upstream.headers, "Content-Type", <<>>)),
                      ApplicationJson)))
    => /\ Len(wfile) = 1
       /\ wfile[1].status = upstream.status_code
       /\ wfile[1].body = upstream.content
       /\ HeaderGet(wfile[1].headers, "Content-Type", <<>>)
            = (IF HeaderGet(upstream.headers, "Content-Type", <<>>) = <<>>
                 THEN OctetStream
                 ELSE HeaderGet(upstream.headers, "Content-Type", <<>>))

\* C8: an upstream response that declares application/json with a body that is
\* not JSON is mirrored with the upstream's status, Content-Type text/plain and
\* the upstream's bytes.
C8_InvalidUpstreamJsonIsPlainText ==
  (Done /\ UpstreamResponded
     /\ HasHeader(upstream.headers, "Content-Type")
     /\ Contains(ToLower(HeaderGet(upstream.headers, "Content-Type", <<>>)),
                 ApplicationJson)
     /\ ~JsonOf(upstream.content).ok)
    => /\ Len(wfile) = 1
       /\ wfile[1].status = upstream.status_code
       /\ HeaderGet(wfile[1].headers, "Content-Type", <<>>) = TextPlain
       /\ wfile[1].body = upstream.content

C8_Witness ==
  /\ Done /\ UpstreamResponded
  /\ upstream.status_code = 503
  /\ HeaderGet(upstream.headers, "Content-Type", <<>>) # ApplicationJson
  /\ Contains(ToLower(HeaderGet(upstream.headers, "Content-Type", <<>>)),
              ApplicationJson)
  /\ upstream.content # <<>>
  /\ ~JsonOf(upstream.content).ok
  /\ Len(wfile) = 1 /\ wfile[1].status = 503

\* C9 as stated: every response on the POST /v1/chat/completions path has a
\* Content-Length header equal to the number of body bytes written.
C9_Original ==
  (Done /\ ForwardingPost)
    => \A k \in 1..Len(wfile) :
         /\ HasHeader(wfile[k].headers, "Content-Length")
         /\ PyInt(HeaderGet(wfile[k].headers, "Content-Length", <<>>)).ok
         /\ PyInt(HeaderGet(wfile[k].headers, "Content-Length", <<>>)).n
              = Len(wfile[k].body)

\* C10 as stated: the handling of a POST to /v1/chat/completions always ends
\* with exactly one response written and no exception escaping the handler.
C10_Original ==
  (Done /\ ForwardingPost) => (Len(wfile) = 1 /\ raised = "")

====
